---- MODULE Spec2Model ----
(***************************************************************************)
(* Auxiliary-information generation (key refresh) of synedrion:            *)
(* src/src/protocols/auxiliary.rs, three rounds Round1 -> Round2 -> Round3 *)
(* -> AuxData, run by N parties.  The curve group is a cyclic group of     *)
(* small order, hashes are the tuple of the chained fields, proofs are the *)
(* statement and auxiliary they were produced for.                         *)
(***************************************************************************)
EXTENDS Integers, Sequences, FiniteSets, TLC

(* ------------------------------------------------------------------ *)
(* Bounds of the model                                                  *)
(* ------------------------------------------------------------------ *)
\* order of the scalar field / curve group
Order == 5
\* the random scalars of zero_sum_scalars are drawn from XDraws
XDraws == {0, 1}
\* the random bytes of rho_bits are drawn from 0..MaxByte
MaxByte == 1
\* numbers of parties of a session
PartyCounts == {2, 3}
\* session identifiers
SessionIds == {1}

(* P::SECURITY_PARAMETER *)
SECURITY_PARAMETER == 1

(* ------------------------------------------------------------------ *)
(* Option, vectors                                                      *)
(* ------------------------------------------------------------------ *)
None == << >>
Some(x) == << x >>
IsSome(o) == Len(o) = 1
Unwrap(o) == o[1]

\* v[idx] of a 0-indexed Vec; defined when idx < v.len()
At(v, idx) == v[idx + 1]
InBounds(v, idx) == idx + 1 \in 1..Len(v)

(* ------------------------------------------------------------------ *)
(* Scalars and points                                                   *)
(* ------------------------------------------------------------------ *)
Scalars == 0..(Order - 1)
Points == 0..(Order - 1)
IDENTITY == 0
GENERATOR == Order - 1

ScalarAdd(a, b) == (a + b) % Order
ScalarNeg(a) == (Order - a) % Order
PointAdd(p, q) == (p + q) % Order
\* &Point::GENERATOR * &x
Mul(x) == (GENERATOR * x) % Order

RECURSIVE SumScalars(_)
SumScalars(s) == IF s = << >> THEN 0 ELSE ScalarAdd(Head(s), SumScalars(Tail(s)))

RECURSIVE SumPoints(_)
SumPoints(s) == IF s = << >> THEN IDENTITY ELSE PointAdd(Head(s), SumPoints(Tail(s)))

\* zero_sum_scalars(rng, n): n - 1 random scalars, the last is minus their sum
zero_sum_scalars(free) == free \o << ScalarNeg(SumScalars(free)) >>

(* ------------------------------------------------------------------ *)
(* Bytes                                                                *)
(* ------------------------------------------------------------------ *)
RECURSIVE XorBits(_, _, _)
XorBits(a, b, k) ==
    IF k = 0 THEN 0
    ELSE ((a + b) % 2) + 2 * XorBits(a \div 2, b \div 2, k - 1)

\* a ^ b on u8
Xor(a, b) == XorBits(a, b, 8)

\* random_bits(min_bits): the number of bytes holding min_bits bits
BytesFor(min_bits) == (min_bits + 7) \div 8

RECURSIVE Bits(_)
\* Uint::bits(): the bit length of n
Bits(n) == IF n = 0 THEN 0 ELSE 1 + Bits(n \div 2)

RECURSIVE Pow(_, _, _)
Pow(b, e, m) == IF e = 0 THEN 1 % m ELSE (b * Pow(b, e - 1, m)) % m

(* ------------------------------------------------------------------ *)
(* BitVec (tools/bitvec.rs); usize is UsizeBits wide                    *)
(* ------------------------------------------------------------------ *)
UsizeBits == 6
RECURSIVE Pow2(_)
Pow2(k) == IF k = 0 THEN 1 ELSE 2 * Pow2(k - 1)
UsizeMax == Pow2(UsizeBits) - 1

\* a panic of the process; a value returned
Panic == [panic |-> TRUE]
Returned(x) == [panic |-> FALSE, val |-> x]

\* (min_bits - 1) / 8 + 1 on usize: min_bits - 1 overflows for min_bits = 0,
\* where a build with overflow checks panics and a build without them wraps
BitVec_random_len(min_bits) ==
    IF min_bits = 0
    THEN {Panic, Returned((UsizeMax \div 8 + 1) % (UsizeMax + 1))}
    ELSE {Returned(((min_bits - 1) \div 8 + 1) % (UsizeMax + 1))}

\* BitVec::random(rng, min_bits): vec![0; len] filled by rng.fill_bytes,
\* which yields the bytes stream[1], stream[2], ...
BitVec_random(stream, min_bits) ==
    {IF len.panic THEN Panic
     ELSE Returned([k \in 1..len.val |-> stream[((k - 1) % Len(stream)) + 1]]) :
        len \in BitVec_random_len(min_bits)}

\* BitVec ^= &BitVec: the assertion on the lengths, then self.0[i] ^= rhs.0[i];
\* lhs is the left operand as the call leaves it
BitVec_bitxor_assign(lhs, rhs) ==
    IF Len(lhs) # Len(rhs)
    THEN [panic |-> TRUE, lhs |-> lhs]
    ELSE [panic |-> FALSE, lhs |-> [i \in 1..Len(lhs) |-> Xor(lhs[i], rhs[i])]]

(* ------------------------------------------------------------------ *)
(* Paillier surface                                                     *)
(* ------------------------------------------------------------------ *)
\* SecretKeyPaillier::public_key
public_key(sk) == [modulus |-> sk.p * sk.q]

\* PublicKeyPaillier::modulus
modulus(pk) == pk.modulus

\* Ciphertext::new(rng, pk, plaintext)
Ciphertext_new(pk, x) == [modulus |-> modulus(pk), plaintext |-> x]

\* Ciphertext::decrypt(sk): the plaintext under the key it was made for,
\* another scalar under any other key
decrypt(ct, sk) ==
    IF ct.modulus = sk.p * sk.q
    THEN Some(ct.plaintext % Order)
    ELSE Some((ct.plaintext + ct.modulus + sk.p) % Order)

(* ------------------------------------------------------------------ *)
(* Proof surfaces: a proof is the statement and the auxiliary it was    *)
(* produced for, and whether the prover held a witness of the statement *)
(* ------------------------------------------------------------------ *)
\* PrmProof::random(rng, sk, lambda, base, public, aux, security_parameter)
PrmProof_random(sk, lambda, base, public, aux) ==
    [modulus |-> sk.p * sk.q, base |-> base, public |-> public, aux |-> aux,
     sound |-> public = Pow(base, lambda, sk.p * sk.q)]

\* PrmProof::verify(pk, base, public, aux)
PrmProof_verify(proof, pk, base, public, aux) ==
    /\ proof.sound
    /\ proof.modulus = modulus(pk)
    /\ proof.base = base
    /\ proof.public = public
    /\ proof.aux = aux

IsPrime(n) == n > 1 /\ \A d \in 2..(n - 1) : n % d # 0

\* ModProof::random(rng, sk, aux, security_parameter)
ModProof_random(sk, aux) ==
    [modulus |-> sk.p * sk.q, aux |-> aux,
     sound |-> IsPrime(sk.p) /\ IsPrime(sk.q) /\ sk.p # sk.q]

\* ModProof::verify(pk, aux)
ModProof_verify(proof, pk, aux) ==
    /\ proof.sound
    /\ proof.modulus = modulus(pk)
    /\ proof.aux = aux

\* FacProof::random(rng, sk, aux)
FacProof_random(sk, aux) == [modulus |-> sk.p * sk.q, aux |-> aux, sound |-> TRUE]

\* FacProof::verify(): takes neither the public key nor the auxiliary
FacProof_verify(proof) == proof.sound

\* SchCommitment::new(secret)
SchCommitment_new(secret) == Mul(secret)

\* SchProof::new(secret, x, commitment, public, aux)
SchProof_new(secret, x, commitment, public, aux) ==
    [commitment |-> commitment, public |-> public, aux |-> aux,
     sound |-> Mul(secret) = commitment /\ Mul(x) = public]

\* SchProof::verify(commitment, public, aux)
SchProof_verify(proof, commitment, public, aux) ==
    /\ proof.sound
    /\ proof.commitment = commitment
    /\ proof.public = public
    /\ proof.aux = aux

(* ------------------------------------------------------------------ *)
(* FullData                                                             *)
(* ------------------------------------------------------------------ *)
\* FullData::hash without rho_bits
FullData_hash_norho(d) ==
    << "Auxiliary", d.session_id, d.party_idx, d.xs_public, d.sch_commitments_x,
       d.y_public, d.sch_commitment_y, d.paillier_pk, d.paillier_public,
       d.paillier_base, d.prm_proof, d.u_bits >>

\* FullData::hash without u_bits
FullData_hash_nou(d) ==
    << "Auxiliary", d.session_id, d.party_idx, d.xs_public, d.sch_commitments_x,
       d.y_public, d.sch_commitment_y, d.paillier_pk, d.paillier_public,
       d.paillier_base, d.prm_proof, d.rho_bits >>

\* FullData::hash: the domain separation tag and the twelve chained fields
FullData_hash(d) ==
    << "Auxiliary", d.session_id, d.party_idx, d.xs_public, d.sch_commitments_x,
       d.y_public, d.sch_commitment_y, d.paillier_pk, d.paillier_public,
       d.paillier_base, d.prm_proof, d.rho_bits, d.u_bits >>

\* xs_public without the point of the last share
MapMul_droplast(xs) == [k \in 1..(Len(xs) - 1) |-> Mul(xs[k])]

\* xs_secret.iter().map(|x| &Point::GENERATOR * x).collect()
MapMul(xs) == [k \in 1..Len(xs) |-> Mul(xs[k])]

\* Round1::new(rng, session_id, party_idx, num_parties); rnd holds the draws
\* of the random number generator
Round1_new(rnd, sid, idx, n) ==
    LET paillier_sk == rnd.paillier_sk
        paillier_pk == public_key(paillier_sk)
        y_secret == rnd.y_secret
        y_public == Mul(y_secret)
        sch_secret_y == rnd.sch_secret_y
        sch_commitment_y == SchCommitment_new(sch_secret_y)
        xs_secret == zero_sum_scalars(rnd.xs_free)
        xs_public == MapMul(xs_secret)
        r == rnd.r
        lambda == rnd.lambda
        paillier_base == (r * r) % modulus(paillier_pk)
        paillier_public == Pow(paillier_base, lambda, modulus(paillier_pk))
        aux == << sid, idx >>
        prm_proof == PrmProof_random(paillier_sk, lambda, paillier_base,
                                     paillier_public, aux)
        sch_secrets_x == rnd.sch_secrets_x
        sch_commitments_x ==
            [k \in 1..Len(sch_secrets_x) |-> SchCommitment_new(sch_secrets_x[k])]
    IN  [data |->
            [session_id |-> sid,
             party_idx |-> idx,
             xs_public |-> xs_public,
             sch_commitments_x |-> sch_commitments_x,
             y_public |-> y_public,
             sch_commitment_y |-> sch_commitment_y,
             paillier_pk |-> paillier_pk,
             paillier_public |-> paillier_public,
             paillier_base |-> paillier_base,
             prm_proof |-> prm_proof,
             rho_bits |-> rnd.rho_bits,
             u_bits |-> rnd.u_bits],
         secret_data |->
            [paillier_sk |-> paillier_sk,
             y_secret |-> y_secret,
             xs_secret |-> xs_secret,
             sch_secret_y |-> sch_secret_y,
             sch_secrets_x |-> sch_secrets_x]]

(* ------------------------------------------------------------------ *)
(* Results and HoleVec                                                  *)
(* ------------------------------------------------------------------ *)
Ok(x) == [ok |-> TRUE, val |-> x]
Err(e) == [ok |-> FALSE, val |-> e]

\* the indices of a HoleVec of n parties with the hole at idx
Peers(n, idx) == (0..(n - 1)) \ {idx}

\* HoleVec::into_vec(own): the hole filled with own; a 0-indexed Vec
into_vec(hv, n, idx, own) ==
    [k \in 1..n |-> IF k - 1 = idx THEN own ELSE hv[k - 1]]

(* ------------------------------------------------------------------ *)
(* Round 1                                                              *)
(* ------------------------------------------------------------------ *)
\* Round1::to_send: Broadcast(Round1Bcast { hash })
Round1_to_send(self) == [hash |-> FullData_hash(self.data)]

\* Round1::verify_received
Round1_verify_received(self, from, msg) == Ok(msg.hash)

\* Round1::finalize
Round1_finalize(self, payloads) ==
    [tag |-> "R2", data |-> self.data, secret_data |-> self.secret_data,
     hashes |-> payloads]

(* ------------------------------------------------------------------ *)
(* Round 2                                                              *)
(* ------------------------------------------------------------------ *)
\* Round2::to_send: Broadcast(Round2Bcast { data })
Round2_to_send(self) == [data |-> self.data]

\* Round2::verify_received with the verifier's own index in the PRM auxiliary
Round2_verify_received_selfaux(self, from, msg) ==
    IF FullData_hash(msg.data) # self.hashes[from]
    THEN Err("Invalid hash")
    ELSE IF Bits(modulus(msg.data.paillier_pk)) < 8 * SECURITY_PARAMETER
    THEN Err("Paillier modulus is too small")
    ELSE IF SumPoints(msg.data.xs_public) # IDENTITY
    THEN Err("Sum of X points is not identity")
    ELSE IF ~PrmProof_verify(msg.data.prm_proof, msg.data.paillier_pk,
                             msg.data.paillier_base, msg.data.paillier_public,
                             << self.data.session_id, self.data.party_idx >>)
    THEN Err("PRM verification failed")
    ELSE Ok(msg.data)

\* Round2::verify_received with the sum check ahead of the modulus check
Round2_verify_received_swapped(self, from, msg) ==
    IF FullData_hash(msg.data) # self.hashes[from]
    THEN Err("Invalid hash")
    ELSE IF SumPoints(msg.data.xs_public) # IDENTITY
    THEN Err("Sum of X points is not identity")
    ELSE IF Bits(modulus(msg.data.paillier_pk)) < 8 * SECURITY_PARAMETER
    THEN Err("Paillier modulus is too small")
    ELSE IF ~PrmProof_verify(msg.data.prm_proof, msg.data.paillier_pk,
                             msg.data.paillier_base, msg.data.paillier_public,
                             << self.data.session_id, from >>)
    THEN Err("PRM verification failed")
    ELSE Ok(msg.data)

\* Round2::verify_received rejecting a modulus of exactly 8 * lambda bits
Round2_verify_received_le(self, from, msg) ==
    IF FullData_hash(msg.data) # self.hashes[from]
    THEN Err("Invalid hash")
    ELSE IF Bits(modulus(msg.data.paillier_pk)) <= 8 * SECURITY_PARAMETER
    THEN Err("Paillier modulus is too small")
    ELSE IF SumPoints(msg.data.xs_public) # IDENTITY
    THEN Err("Sum of X points is not identity")
    ELSE IF ~PrmProof_verify(msg.data.prm_proof, msg.data.paillier_pk,
                             msg.data.paillier_base, msg.data.paillier_public,
                             << self.data.session_id, from >>)
    THEN Err("PRM verification failed")
    ELSE Ok(msg.data)

\* Round2::verify_received
Round2_verify_received(self, from, msg) ==
    IF FullData_hash(msg.data) # self.hashes[from]
    THEN Err("Invalid hash")
    ELSE IF Bits(modulus(msg.data.paillier_pk)) < 8 * SECURITY_PARAMETER
    THEN Err("Paillier modulus is too small")
    ELSE IF SumPoints(msg.data.xs_public) # IDENTITY
    THEN Err("Sum of X points is not identity")
    ELSE IF ~PrmProof_verify(msg.data.prm_proof, msg.data.paillier_pk,
                             msg.data.paillier_base, msg.data.paillier_public,
                             << self.data.session_id, from >>)
    THEN Err("PRM verification failed")
    ELSE Ok(msg.data)

\* rho[i] = x in place of rho[i] ^= x
XorInto_assign(rho, bits) ==
    [k \in 1..Len(rho) |-> IF k <= Len(bits) THEN bits[k] ELSE rho[k]]

\* rho[i] ^= x for (i, x) in bits.iter().enumerate(); rho is at least as long
XorInto(rho, bits) ==
    [k \in 1..Len(rho) |-> IF k <= Len(bits) THEN Xor(rho[k], bits[k]) ELSE rho[k]]

RECURSIVE XorAll(_, _, _)
\* the loop of Round2::finalize over the payloads idxs, in index order
XorAll(rho, payloads, idxs) ==
    IF idxs = {} THEN rho
    ELSE LET j == CHOOSE x \in idxs : \A y \in idxs : x <= y
         IN  XorAll(XorInto(rho, payloads[j].rho_bits), payloads, idxs \ {j})

\* rho[i] indexes past the end of rho: the process panics
Round2_finalize_panics(self, payloads) ==
    \E j \in DOMAIN payloads : Len(payloads[j].rho_bits) > Len(self.data.rho_bits)

\* Round2::finalize starting rho from zero bytes instead of the own rho_bits
Round2_finalize_noown(self, payloads) ==
    [tag |-> "R3",
     rho |-> XorAll([k \in 1..Len(self.data.rho_bits) |-> 0], payloads, DOMAIN payloads),
     data |-> self.data, secret_data |-> self.secret_data,
     datas |-> payloads]

\* Round2::finalize
Round2_finalize(self, payloads) ==
    [tag |-> "R3",
     rho |-> XorAll(self.data.rho_bits, payloads, DOMAIN payloads),
     data |-> self.data, secret_data |-> self.secret_data,
     datas |-> payloads]

(* ------------------------------------------------------------------ *)
(* Round 3                                                              *)
(* ------------------------------------------------------------------ *)
\* the FullData2 of Round3::to_send for the recipient party_idx
Round3_data2(self, party_idx) ==
    LET aux == << self.data.session_id, self.rho, self.data.party_idx >>
        x_secret == At(self.secret_data.xs_secret, party_idx)
        x_public == At(self.data.xs_public, party_idx)
    IN  [mod_proof |-> ModProof_random(self.secret_data.paillier_sk, aux),
         fac_proof |-> FacProof_random(self.secret_data.paillier_sk, aux),
         sch_proof_y |->
            SchProof_new(self.secret_data.sch_secret_y, self.secret_data.y_secret,
                         self.data.sch_commitment_y, self.data.y_public, aux),
         paillier_enc_x |->
            Ciphertext_new(self.datas[party_idx].paillier_pk, x_secret),
         sch_proof_x |->
            SchProof_new(At(self.secret_data.sch_secrets_x, party_idx), x_secret,
                         At(self.data.sch_commitments_x, party_idx), x_public, aux)]

\* Round3::to_send: Direct([(party_idx, Round3Direct { data2 })])
Round3_to_send(self) ==
    [party_idx \in DOMAIN self.datas |-> [data2 |-> Round3_data2(self, party_idx)]]

\* an index of Round3::verify_received is out of bounds where the code
\* reaches it: xs_public[self] at the share check, sch_commitments_x[self]
\* once the share, MOD, FAC and SCH-y checks passed; the process panics
Round3_verify_received_panics(self, from, msg) ==
    LET sender_data == self.datas[from]
        x_secret == Unwrap(decrypt(msg.data2.paillier_enc_x,
                                   self.secret_data.paillier_sk))
        aux == << self.data.session_id, self.rho, from >>
    IN  \/ ~InBounds(sender_data.xs_public, self.data.party_idx)
        \/ /\ Mul(x_secret) = At(sender_data.xs_public, self.data.party_idx)
           /\ ModProof_verify(msg.data2.mod_proof, sender_data.paillier_pk, aux)
           /\ FacProof_verify(msg.data2.fac_proof)
           /\ SchProof_verify(msg.data2.sch_proof_y, sender_data.sch_commitment_y,
                              sender_data.y_public, aux)
           /\ ~InBounds(sender_data.sch_commitments_x, self.data.party_idx)

\* Round3::verify_received without the check of the decrypted share
Round3_verify_received_nocheck(self, from, msg) ==
    LET sender_data == self.datas[from]
        x_secret == Unwrap(decrypt(msg.data2.paillier_enc_x,
                                   self.secret_data.paillier_sk))
        aux == << self.data.session_id, self.rho, from >>
    IN  IF FALSE
        THEN Err("Mismatched secret x")
        ELSE IF ~ModProof_verify(msg.data2.mod_proof, sender_data.paillier_pk, aux)
        THEN Err("Mod proof verification failed")
        ELSE IF ~FacProof_verify(msg.data2.fac_proof)
        THEN Err("Fac proof verification failed")
        ELSE IF ~SchProof_verify(msg.data2.sch_proof_y, sender_data.sch_commitment_y,
                                 sender_data.y_public, aux)
        THEN Err("Sch proof verification (Y) failed")
        ELSE IF ~SchProof_verify(msg.data2.sch_proof_x,
                                 At(sender_data.sch_commitments_x, self.data.party_idx),
                                 At(sender_data.xs_public, self.data.party_idx), aux)
        THEN Err("Sch proof verification (Y) failed")
        ELSE Ok(x_secret)

\* Round3::verify_received without the verification of the FAC proof
Round3_verify_received_nofac(self, from, msg) ==
    LET sender_data == self.datas[from]
        x_secret == Unwrap(decrypt(msg.data2.paillier_enc_x,
                                   self.secret_data.paillier_sk))
        aux == << self.data.session_id, self.rho, from >>
    IN  IF Mul(x_secret) # At(sender_data.xs_public, self.data.party_idx)
        THEN Err("Mismatched secret x")
        ELSE IF ~ModProof_verify(msg.data2.mod_proof, sender_data.paillier_pk, aux)
        THEN Err("Mod proof verification failed")
        ELSE IF FALSE
        THEN Err("Fac proof verification failed")
        ELSE IF ~SchProof_verify(msg.data2.sch_proof_y, sender_data.sch_commitment_y,
                                 sender_data.y_public, aux)
        THEN Err("Sch proof verification (Y) failed")
        ELSE IF ~SchProof_verify(msg.data2.sch_proof_x,
                                 At(sender_data.sch_commitments_x, self.data.party_idx),
                                 At(sender_data.xs_public, self.data.party_idx), aux)
        THEN Err("Sch proof verification (Y) failed")
        ELSE Ok(x_secret)

\* Round3::verify_received with the check of the decrypted share after the
\* proofs
Round3_verify_received_sharelast(self, from, msg) ==
    LET sender_data == self.datas[from]
        x_secret == Unwrap(decrypt(msg.data2.paillier_enc_x,
                                   self.secret_data.paillier_sk))
        aux == << self.data.session_id, self.rho, from >>
    IN  IF ~ModProof_verify(msg.data2.mod_proof, sender_data.paillier_pk, aux)
        THEN Err("Mod proof verification failed")
        ELSE IF ~FacProof_verify(msg.data2.fac_proof)
        THEN Err("Fac proof verification failed")
        ELSE IF ~SchProof_verify(msg.data2.sch_proof_y, sender_data.sch_commitment_y,
                                 sender_data.y_public, aux)
        THEN Err("Sch proof verification (Y) failed")
        ELSE IF ~SchProof_verify(msg.data2.sch_proof_x,
                                 At(sender_data.sch_commitments_x, self.data.party_idx),
                                 At(sender_data.xs_public, self.data.party_idx), aux)
        THEN Err("Sch proof verification (Y) failed")
        ELSE IF Mul(x_secret) # At(sender_data.xs_public, self.data.party_idx)
        THEN Err("Mismatched secret x")
        ELSE Ok(x_secret)

\* Round3::verify_received
Round3_verify_received(self, from, msg) ==
    LET sender_data == self.datas[from]
        x_secret == Unwrap(decrypt(msg.data2.paillier_enc_x,
                                   self.secret_data.paillier_sk))
        aux == << self.data.session_id, self.rho, from >>
    IN  IF Mul(x_secret) # At(sender_data.xs_public, self.data.party_idx)
        THEN Err("Mismatched secret x")
        ELSE IF ~ModProof_verify(msg.data2.mod_proof, sender_data.paillier_pk, aux)
        THEN Err("Mod proof verification failed")
        ELSE IF ~FacProof_verify(msg.data2.fac_proof)
        THEN Err("Fac proof verification failed")
        ELSE IF ~SchProof_verify(msg.data2.sch_proof_y, sender_data.sch_commitment_y,
                                 sender_data.y_public, aux)
        THEN Err("Sch proof verification (Y) failed")
        ELSE IF ~SchProof_verify(msg.data2.sch_proof_x,
                                 At(sender_data.sch_commitments_x, self.data.party_idx),
                                 At(sender_data.xs_public, self.data.party_idx), aux)
        THEN Err("Sch proof verification (Y) failed")
        ELSE Ok(x_secret)

\* data.xs_public[idx] is out of bounds for some data and idx < datas.len()
Round3_finalize_panics(self, payloads) ==
    LET n == Cardinality(DOMAIN self.datas) + 1
        datas == into_vec(self.datas, n, self.data.party_idx, self.data)
    IN  \E k \in 1..n : \E idx \in 0..(n - 1) : ~InBounds(datas[k].xs_public, idx)

\* Round3::finalize summing xs_public[0] for every idx
Round3_finalize_idx0(self, payloads) ==
    LET n == Cardinality(DOMAIN self.datas) + 1
        secrets == into_vec(payloads, n, self.data.party_idx,
                            At(self.secret_data.xs_secret, self.data.party_idx))
        datas == into_vec(self.datas, n, self.data.party_idx, self.data)
    IN  [tag |-> "AuxData",
         x_mask |-> SumScalars(secrets),
         y |-> self.secret_data.y_secret,
         paillier_sk |-> self.secret_data.paillier_sk,
         xs_masks_public |->
            [idx \in 1..Len(datas) |->
                SumPoints([k \in 1..Len(datas) |-> At(datas[k].xs_public, 0)])],
         ys_public |-> [k \in 1..Len(datas) |-> datas[k].y_public],
         paillier_pks |-> [k \in 1..Len(datas) |-> datas[k].paillier_pk],
         paillier_bases |-> [k \in 1..Len(datas) |-> datas[k].paillier_base],
         paillier_publics |-> [k \in 1..Len(datas) |-> datas[k].paillier_public]]

\* Round3::finalize with the own FullData first instead of at the own index
Round3_finalize_ownfirst(self, payloads) ==
    LET n == Cardinality(DOMAIN self.datas) + 1
        secrets == into_vec(payloads, n, self.data.party_idx,
                            At(self.secret_data.xs_secret, self.data.party_idx))
        datas == << self.data >> \o
                 [k \in 1..(n - 1) |->
                    into_vec(self.datas, n, self.data.party_idx, self.data)
                       [IF k - 1 < self.data.party_idx THEN k ELSE k + 1]]
    IN  [tag |-> "AuxData",
         x_mask |-> SumScalars(secrets),
         y |-> self.secret_data.y_secret,
         paillier_sk |-> self.secret_data.paillier_sk,
         xs_masks_public |->
            [idx \in 1..Len(datas) |->
                SumPoints([k \in 1..Len(datas) |-> At(datas[k].xs_public, idx - 1)])],
         ys_public |-> [k \in 1..Len(datas) |-> datas[k].y_public],
         paillier_pks |-> [k \in 1..Len(datas) |-> datas[k].paillier_pk],
         paillier_bases |-> [k \in 1..Len(datas) |-> datas[k].paillier_base],
         paillier_publics |-> [k \in 1..Len(datas) |-> datas[k].paillier_public]]

\* Round3::finalize
Round3_finalize(self, payloads) ==
    LET n == Cardinality(DOMAIN self.datas) + 1
        secrets == into_vec(payloads, n, self.data.party_idx,
                            At(self.secret_data.xs_secret, self.data.party_idx))
        datas == into_vec(self.datas, n, self.data.party_idx, self.data)
    IN  [tag |-> "AuxData",
         x_mask |-> SumScalars(secrets),
         y |-> self.secret_data.y_secret,
         paillier_sk |-> self.secret_data.paillier_sk,
         xs_masks_public |->
            [idx \in 1..Len(datas) |->
                SumPoints([k \in 1..Len(datas) |-> At(datas[k].xs_public, idx - 1)])],
         ys_public |-> [k \in 1..Len(datas) |-> datas[k].y_public],
         paillier_pks |-> [k \in 1..Len(datas) |-> datas[k].paillier_pk],
         paillier_bases |-> [k \in 1..Len(datas) |-> datas[k].paillier_base],
         paillier_publics |-> [k \in 1..Len(datas) |-> datas[k].paillier_public]]

(* ------------------------------------------------------------------ *)
(* The session: N parties, the messages in flight and the driver        *)
(* ------------------------------------------------------------------ *)
VARIABLES
    num_parties,  \* N
    session_id,   \* the SessionId every party is constructed with
    rng,          \* per party, the draws its Round1::new made
    honest,       \* the parties that run the code
    round,        \* per party, the round value it holds (or AuxData, Aborted)
    payloads,     \* per party, the payloads of the current round, per peer
    bcast1,       \* per party, its Round1Bcast once sent
    bcast2,       \* per party, its Round2Bcast once sent
    direct3,      \* per party, its Round3Direct messages once sent, per recipient
    verified,     \* history: per party, the (round, peer) whose message it accepted
    accepted,     \* history: per party, the datas its Round2::finalize was given
    committed,    \* history: the bundle whose hash the dishonest party broadcast
    call          \* a call of a function of the tools on its own: the
                  \* function, its arguments and, once it returned, its result

vars == << num_parties, session_id, rng, honest, round, payloads,
           bcast1, bcast2, direct3, verified, accepted, committed, call >>

\* what no step of the session changes
session == << num_parties, session_id, rng, honest, call >>

Parties == 0..(num_parties - 1)

PrimeTable == << 11, 13, 17, 19 >>

\* SecretKeyPaillier::random of party idx
KeyOf(idx) == [p |-> PrimeTable[idx + 1], q |-> PrimeTable[idx + 2]]

\* the draws of Round1::new that vary between runs
Draws(n) ==
    [xs_free : [1..(n - 1) -> XDraws],
     rho_bits : [1..BytesFor(SECURITY_PARAMETER) -> 0..MaxByte]]

\* all draws of the Round1::new of party idx
Rnd(v, idx, n) ==
    [paillier_sk |-> KeyOf(idx),
     y_secret |-> 1 + (idx % (Order - 1)),
     sch_secret_y |-> 1,
     xs_free |-> v.xs_free,
     r |-> 2 + idx,
     lambda |-> 3,
     sch_secrets_x |-> [k \in 1..n |-> 2],
     rho_bits |-> v.rho_bits,
     u_bits |-> [k \in 1..BytesFor(SECURITY_PARAMETER) |-> 0]]

NoPayloads(n) == [i \in 0..(n - 1) |-> [j \in Peers(n, i) |-> None]]

InitSession(hs, ds) ==
    /\ num_parties \in PartyCounts
    /\ session_id \in SessionIds
    /\ \E v \in [0..(num_parties - 1) -> ds] :
          rng = [i \in 0..(num_parties - 1) |-> Rnd(v[i], i, num_parties)]
    /\ honest = hs
    /\ round = [i \in 0..(num_parties - 1) |->
                  IF i \in honest
                  THEN LET r1 == Round1_new(rng[i], session_id, i, num_parties)
                       IN  [tag |-> "R1", data |-> r1.data,
                            secret_data |-> r1.secret_data]
                  ELSE [tag |-> "Byzantine"]]
    /\ payloads = NoPayloads(num_parties)
    /\ bcast1 = [i \in 0..(num_parties - 1) |-> None]
    /\ bcast2 = [i \in 0..(num_parties - 1) |-> None]
    /\ direct3 = [i \in 0..(num_parties - 1) |-> None]
    /\ verified = [i \in 0..(num_parties - 1) |-> {}]
    /\ accepted = [i \in 0..(num_parties - 1) |-> None]
    /\ committed = None
    /\ call = None

AllHonest(n) == 0..(n - 1)

\* every party runs the code
Init == InitSession(AllHonest(num_parties), Draws(num_parties))

\* a driver that finalizes on the first payload
Complete_any(i) == \E j \in Peers(num_parties, i) : IsSome(payloads[i][j])

Complete(i) == \A j \in Peers(num_parties, i) : IsSome(payloads[i][j])

\* the HoleVec the driver hands to finalize: the payloads it holds
Collected(i) ==
    [j \in {k \in Peers(num_parties, i) : IsSome(payloads[i][k])} |->
        Unwrap(payloads[i][j])]

\* a driver that notes the error of a failed verification and goes on
Settle_continue(i, j, res) ==
    IF res.ok
    THEN /\ payloads' = [payloads EXCEPT ![i][j] = Some(res.val)]
         /\ verified' = [verified EXCEPT ![i] = @ \cup {<< round[i].tag, j >>}]
         /\ round' = round
    ELSE /\ round' = [round EXCEPT ![i] =
                [x \in DOMAIN round[i] \cup {"error"} |->
                    IF x = "error" THEN res.val ELSE round[i][x]]]
         /\ payloads' = [payloads EXCEPT ![i] = [k \in Peers(num_parties, i) |-> None]]
         /\ verified' = verified

\* the driver keeps the payload of an accepted message and ends the
\* session of party i on an error
Settle(i, j, res) ==
    IF res.ok
    THEN /\ payloads' = [payloads EXCEPT ![i][j] = Some(res.val)]
         /\ verified' = [verified EXCEPT ![i] = @ \cup {<< round[i].tag, j >>}]
         /\ round' = round
    ELSE /\ round' = [round EXCEPT ![i] =
                [tag |-> "Aborted", at |-> round[i].tag, from |-> j,
                 error |-> res.val]]
         /\ payloads' = [payloads EXCEPT ![i] = [k \in Peers(num_parties, i) |-> None]]
         /\ verified' = verified

\* the driver starts the session of party i: Round1::to_send
Start(i) ==
    /\ i \in honest
    /\ round[i].tag = "R1"
    /\ bcast1[i] = None
    /\ bcast1' = [bcast1 EXCEPT ![i] = Some(Round1_to_send(round[i]))]
    /\ UNCHANGED << session, round, payloads, bcast2, direct3, verified,
                    accepted, committed >>

\* party i is handed the Round1Bcast of party j
Receive1(i, j) ==
    /\ i \in honest
    /\ round[i].tag = "R1"
    /\ IsSome(bcast1[i])
    /\ j \in Peers(num_parties, i)
    /\ payloads[i][j] = None
    /\ IsSome(bcast1[j])
    /\ Settle(i, j, Round1_verify_received(round[i], j, Unwrap(bcast1[j])))
    /\ UNCHANGED << session, bcast1, bcast2, direct3, accepted, committed >>

\* all payloads of round 1 are in: Round1::finalize, then Round2::to_send
Finalize1(i) ==
    /\ i \in honest
    /\ round[i].tag = "R1"
    /\ IsSome(bcast1[i])
    /\ Complete(i)
    /\ LET r2 == Round1_finalize(round[i], Collected(i))
       IN  /\ round' = [round EXCEPT ![i] = r2]
           /\ bcast2' = [bcast2 EXCEPT ![i] = Some(Round2_to_send(r2))]
    /\ payloads' = [payloads EXCEPT ![i] = [k \in Peers(num_parties, i) |-> None]]
    /\ UNCHANGED << session, bcast1, direct3, verified, accepted, committed >>

\* party i is handed the Round2Bcast msg as sent by party j
Deliver2(i, j, msg) ==
    /\ i \in honest
    /\ round[i].tag = "R2"
    /\ j \in Peers(num_parties, i)
    /\ payloads[i][j] = None
    /\ Settle(i, j, Round2_verify_received(round[i], j, msg))
    /\ UNCHANGED << session, bcast1, bcast2, direct3, accepted, committed >>

Receive2(i, j) ==
    /\ j \in honest
    /\ IsSome(bcast2[j])
    /\ Deliver2(i, j, Unwrap(bcast2[j]))

\* all payloads of round 2 are in: Round2::finalize, then Round3::to_send
Finalize2(i) ==
    /\ i \in honest
    /\ round[i].tag = "R2"
    /\ Complete(i)
    /\ IF Round2_finalize_panics(round[i], Collected(i))
       THEN /\ round' = [round EXCEPT ![i] = [tag |-> "Panicked", at |-> "R2"]]
            /\ direct3' = direct3
       ELSE LET r3 == Round2_finalize(round[i], Collected(i))
            IN  /\ round' = [round EXCEPT ![i] = r3]
                /\ direct3' = [direct3 EXCEPT ![i] = Some(Round3_to_send(r3))]
    /\ payloads' = [payloads EXCEPT ![i] = [k \in Peers(num_parties, i) |-> None]]
    /\ accepted' = [accepted EXCEPT ![i] = Some(Collected(i))]
    /\ UNCHANGED << session, bcast1, bcast2, verified, committed >>

\* party i is handed the Round3Direct msg as sent by party j
Deliver3(i, j, msg) ==
    /\ i \in honest
    /\ round[i].tag = "R3"
    /\ j \in Peers(num_parties, i)
    /\ payloads[i][j] = None
    /\ IF Round3_verify_received_panics(round[i], j, msg)
       THEN /\ round' = [round EXCEPT ![i] = [tag |-> "Panicked", at |-> "R3"]]
            /\ payloads' = [payloads EXCEPT ![i] = [k \in Peers(num_parties, i) |-> None]]
            /\ verified' = verified
       ELSE Settle(i, j, Round3_verify_received(round[i], j, msg))
    /\ UNCHANGED << session, bcast1, bcast2, direct3, accepted, committed >>

Receive3(i, j) ==
    /\ j \in honest
    /\ IsSome(direct3[j])
    /\ i \in DOMAIN Unwrap(direct3[j])
    /\ Deliver3(i, j, Unwrap(direct3[j])[i])

\* all payloads of round 3 are in: Round3::finalize
Finalize3(i) ==
    /\ i \in honest
    /\ round[i].tag = "R3"
    /\ Complete(i)
    /\ round' = [round EXCEPT ![i] =
            IF Round3_finalize_panics(round[i], Collected(i))
            THEN [tag |-> "Panicked", at |-> "R3"]
            ELSE Round3_finalize(round[i], Collected(i))]
    /\ payloads' = [payloads EXCEPT ![i] = [k \in Peers(num_parties, i) |-> None]]
    /\ UNCHANGED << session, bcast1, bcast2, direct3, verified, accepted, committed >>

Next ==
    \/ \E i \in Parties : Start(i)
    \/ \E i \in Parties, j \in Parties : Receive1(i, j)
    \/ \E i \in Parties : Finalize1(i)
    \/ \E i \in Parties, j \in Parties : Receive2(i, j)
    \/ \E i \in Parties : Finalize2(i)
    \/ \E i \in Parties, j \in Parties : Receive3(i, j)
    \/ \E i \in Parties : Finalize3(i)

Spec == Init /\ [][Next]_vars

\* the draws of the runs whose termination is checked
FairDraws(n) ==
    [xs_free : [1..(n - 1) -> {1}],
     rho_bits : [1..BytesFor(SECURITY_PARAMETER) -> 0..MaxByte]]

InitFair == InitSession(AllHonest(num_parties), FairDraws(num_parties))

\* the driver keeps delivering messages and finalizing complete rounds
FairSpec == InitFair /\ [][Next]_vars /\ WF_vars(Next)

(* ------------------------------------------------------------------ *)
(* Properties of an honest run                                          *)
(* ------------------------------------------------------------------ *)
\* the FullData party j built in Round1::new
Published(j) == Round1_new(rng[j], session_id, j, num_parties).data

Done(i) == round[i].tag = "AuxData"
Failed(i) == round[i].tag \in {"Aborted", "Panicked"}
AllDone == \A i \in Parties : Done(i)

\* C1: happy-path termination. With every party honest and every message
\* delivered, no verify_received returns an error (no party is ever Aborted)
\* and every party eventually holds AuxData.
C1_HappyPath == [](\A i \in Parties : ~Failed(i)) /\ <>AllDone

C1_Witness == num_parties = 3 /\ AllDone

\* C2: public-key preservation. In an honest run the xs_masks_public of every
\* AuxData sum to the identity, and so does the double sum of the xs_public
\* of all parties over all positions.
C2_KeyPreserved ==
    \A i \in Parties : Done(i) =>
        /\ SumPoints(round[i].xs_masks_public) = IDENTITY
        /\ SumPoints([j \in 1..num_parties |->
                        SumPoints(Published(j - 1).xs_public)]) = IDENTITY
        /\ \A k \in 1..num_parties :
              round[i].xs_masks_public[k] =
                  SumPoints([j \in 1..num_parties |-> Published(j - 1).xs_public[k]])

C2_Witness ==
    /\ num_parties = 3
    /\ AllDone
    /\ \E k \in 1..3 : round[0].xs_masks_public[k] # IDENTITY

\* C4: global rho agreement. The rho of every Round3 is the XOR of the
\* rho_bits of all N parties, each once, hence the same at all parties.
RECURSIVE XorOfAll(_, _)
XorOfAll(n, k) ==
    IF n = 0 THEN 0 ELSE Xor(rng[n - 1].rho_bits[k], XorOfAll(n - 1, k))

C4_RhoAgreement ==
    /\ \A i \in Parties : round[i].tag = "R3" =>
          /\ Len(round[i].rho) = BytesFor(SECURITY_PARAMETER)
          /\ \A k \in 1..Len(round[i].rho) :
                round[i].rho[k] = XorOfAll(num_parties, k)
    /\ \A a, b \in Parties :
          round[a].tag = "R3" /\ round[b].tag = "R3" => round[a].rho = round[b].rho

C4_Witness ==
    /\ num_parties = 3
    /\ \A i \in Parties : round[i].tag = "R3"
    /\ round[0].rho # rng[0].rho_bits
    /\ round[0].rho # << 0 >>

\* C5: cross-party agreement. In an honest run the public vectors of any two
\* AuxData are identical, each of length N, and entry j of ys_public,
\* paillier_pks, paillier_publics and paillier_bases is the value party j
\* published.
PublicVectors(a) ==
    << a.xs_masks_public, a.ys_public, a.paillier_pks, a.paillier_publics,
       a.paillier_bases >>

C5_PublicVectorsAgree ==
    /\ \A a, b \in Parties :
          Done(a) /\ Done(b) => PublicVectors(round[a]) = PublicVectors(round[b])
    /\ \A i \in Parties : Done(i) =>
          /\ \A v \in 1..5 : Len(PublicVectors(round[i])[v]) = num_parties
          /\ \A j \in Parties :
                /\ round[i].ys_public[j + 1] = Published(j).y_public
                /\ round[i].paillier_pks[j + 1] = Published(j).paillier_pk
                /\ round[i].paillier_publics[j + 1] = Published(j).paillier_public
                /\ round[i].paillier_bases[j + 1] = Published(j).paillier_base

C5_Witness ==
    /\ num_parties = 3
    /\ AllDone
    /\ round[1].ys_public[1] # round[1].ys_public[2]
    /\ round[1].paillier_pks[2] # round[1].paillier_pks[3]

(* ------------------------------------------------------------------ *)
(* A session with a dishonest party 0                                   *)
(* ------------------------------------------------------------------ *)
\* party 0 does not run the code
OneDishonest(n) == 1..(n - 1)

Dishonest == Parties \ honest

\* a Paillier key of 8 * SECURITY_PARAMETER - 1 bits
WeakKey == [p |-> 7, q |-> 17]

\* the fields of FullData the dishonest party changes after building the
\* bundle as Round1::new does
Fields ==
    {"session_id", "party_idx", "xs_public", "sch_commitments_x", "y_public",
     "sch_commitment_y", "paillier_pk", "paillier_public", "paillier_base",
     "prm_proof", "rho_bits", "u_bits"}

\* xs with its first two entries exchanged
Swap01(xs) ==
    IF Len(xs) < 2 THEN xs ELSE [xs EXCEPT ![1] = xs[2], ![2] = xs[1]]

Tampered(d, T) ==
    [session_id |-> IF "session_id" \in T THEN d.session_id + 1 ELSE d.session_id,
     party_idx |-> IF "party_idx" \in T THEN d.party_idx + 1 ELSE d.party_idx,
     xs_public |->
        IF "xs_public" \in T
        THEN [d.xs_public EXCEPT ![1] = PointAdd(@, 1)]
        ELSE IF "xs_shift" \in T
        THEN [d.xs_public EXCEPT ![1] = PointAdd(@, 1),
                                 ![2] = PointAdd(@, Order - 1)]
        ELSE IF "xs_swap" \in T
        THEN Swap01(d.xs_public)
        ELSE d.xs_public,
     sch_commitments_x |->
        IF "sch_commitments_x" \in T
        THEN [d.sch_commitments_x EXCEPT ![1] = PointAdd(@, 1)]
        ELSE d.sch_commitments_x,
     y_public |-> IF "y_public" \in T THEN PointAdd(d.y_public, 1) ELSE d.y_public,
     sch_commitment_y |->
        IF "sch_commitment_y" \in T
        THEN PointAdd(d.sch_commitment_y, 1) ELSE d.sch_commitment_y,
     paillier_pk |->
        IF "paillier_pk" \in T THEN public_key(WeakKey) ELSE d.paillier_pk,
     paillier_public |->
        IF "paillier_public" \in T THEN d.paillier_public + 1 ELSE d.paillier_public,
     paillier_base |->
        IF "paillier_base" \in T THEN d.paillier_base + 1 ELSE d.paillier_base,
     prm_proof |->
        IF "prm_proof" \in T
        THEN [d.prm_proof EXCEPT !.sound = FALSE] ELSE d.prm_proof,
     rho_bits |->
        IF "rho_bits" \in T
        THEN [d.rho_bits EXCEPT ![1] = Xor(@, 1)] ELSE d.rho_bits,
     u_bits |->
        IF "u_bits" \in T THEN [d.u_bits EXCEPT ![1] = Xor(@, 1)] ELSE d.u_bits]

\* the sets of changes: none, every single field, and those that make
\* several checks of Round2::verify_received fail at once
TamperSets ==
    {{}} \cup {{f} : f \in Fields} \cup
    {{"xs_shift"}, {"xs_swap"}, {"paillier_pk", "xs_public"}, {"xs_public", "prm_proof"},
     {"paillier_pk", "prm_proof"}, {"paillier_pk", "xs_public", "prm_proof"}}

\* the draws of the dishonest party
AdvDraw(n) ==
    [xs_free |-> [k \in 1..(n - 1) |-> k % Order],
     rho_bits |-> [k \in 1..BytesFor(SECURITY_PARAMETER) |-> 1]]

AdvRnd(n) == Rnd(AdvDraw(n), 0, n)

\* the bundle the dishonest party builds with the key sk
AdvBase(sk, sid, n) ==
    Round1_new([AdvRnd(n) EXCEPT !.paillier_sk = sk], sid, 0, n).data

\* per number of parties and session, the bundles the dishonest party
\* commits to and reveals
AdvTable ==
    [n \in PartyCounts, sid \in SessionIds |->
        {Tampered(AdvBase(sk, sid, n), T) :
            sk \in {KeyOf(0), WeakKey}, T \in TamperSets}]

AdvDatas == AdvTable[num_parties, session_id]

\* the scalar x with G * x = pt
DLog(pt) == CHOOSE x \in Scalars : Mul(x) = pt

\* the kinds of Round 3 packets of the dishonest party: a packet every check
\* accepts; the ciphertext of another scalar, with sound and with unsound
\* proofs; per proof, one that is unsound and one produced under another
\* session id (_sid), another rho (_rho) or another sender index (_aux); and
\* the packet Round3::to_send builds from the bundle and the secret shares
\* of the bundle with the first two entries exchanged (as_code)
PacketKinds ==
    {"valid", "other_x", "other_x_unsound", "as_code",
     "mod_unsound", "mod_sid", "mod_rho", "mod_aux",
     "fac_unsound", "fac_sid", "fac_rho", "fac_aux",
     "sch_y_unsound", "sch_y_sid", "sch_y_rho", "sch_y_aux",
     "sch_x_unsound", "sch_x_sid", "sch_x_rho", "sch_x_aux"}

\* the auxiliary of a proof of the dishonest party
AdvAux(kind, sid_kind, rho_kind, idx_kind, rho) ==
    IF kind = sid_kind THEN << session_id + 1, rho, 0 >>
    ELSE IF kind = rho_kind THEN << session_id, [k \in 1..Len(rho) |-> Xor(rho[k], 1)], 0 >>
    ELSE IF kind = idx_kind THEN << session_id, rho, 1 >>
    ELSE << session_id, rho, 0 >>

\* the Round3 of a party 0 that revealed d and holds the secret shares of d
\* with the first two entries exchanged
AdvRound3(d, rho) ==
    [tag |-> "R3", rho |-> rho, data |-> d,
     secret_data |->
        [Round1_new(AdvRnd(num_parties), session_id, 0, num_parties).secret_data
            EXCEPT !.xs_secret = [k \in 1..Len(d.xs_public) |->
                                     DLog(Swap01(d.xs_public)[k])]],
     datas |-> [k \in Peers(num_parties, 0) |-> Published(k)]]

\* the Round3Direct the dishonest party sends to i, which holds d as
\* datas[0] and rho as rho
AdvPacket(kind, i, d, rho) ==
    LET x == IF InBounds(d.xs_public, i) THEN DLog(At(d.xs_public, i)) ELSE 0
        unsound == kind = "other_x_unsound"
    IN  IF kind = "as_code"
        THEN [data2 |-> Round3_data2(AdvRound3(d, rho), i)]
        ELSE
        [data2 |->
           [mod_proof |->
               [modulus |-> modulus(d.paillier_pk),
                aux |-> AdvAux(kind, "mod_sid", "mod_rho", "mod_aux", rho),
                sound |-> kind # "mod_unsound" /\ ~unsound],
            fac_proof |->
               [modulus |-> modulus(d.paillier_pk),
                aux |-> AdvAux(kind, "fac_sid", "fac_rho", "fac_aux", rho),
                sound |-> kind # "fac_unsound" /\ ~unsound],
            sch_proof_y |->
               [commitment |-> d.sch_commitment_y, public |-> d.y_public,
                aux |-> AdvAux(kind, "sch_y_sid", "sch_y_rho", "sch_y_aux", rho),
                sound |-> kind # "sch_y_unsound" /\ ~unsound],
            paillier_enc_x |->
               Ciphertext_new(Published(i).paillier_pk,
                              IF kind \in {"other_x", "other_x_unsound"}
                              THEN ScalarAdd(x, 1) ELSE x),
            sch_proof_x |->
               [commitment |->
                   IF InBounds(d.sch_commitments_x, i)
                   THEN At(d.sch_commitments_x, i) ELSE IDENTITY,
                public |->
                   IF InBounds(d.xs_public, i) THEN At(d.xs_public, i) ELSE IDENTITY,
                aux |-> AdvAux(kind, "sch_x_sid", "sch_x_rho", "sch_x_aux", rho),
                sound |-> kind # "sch_x_unsound" /\ ~unsound]]]

InitAdv ==
    /\ InitSession(OneDishonest(num_parties),
                   FairDraws(num_parties) \cup {AdvDraw(num_parties)})
    /\ rng[0] = AdvRnd(num_parties)
    /\ \A i \in honest :
          [xs_free |-> rng[i].xs_free, rho_bits |-> rng[i].rho_bits]
             \in FairDraws(num_parties)

\* the dishonest party broadcasts the hash of a bundle; the consensus on the
\* round 1 broadcast hands every party the same hash
AdvCommit(d) ==
    /\ 0 \in Dishonest
    /\ bcast1[0] = None
    /\ bcast1' = [bcast1 EXCEPT ![0] = Some([hash |-> FullData_hash(d)])]
    /\ committed' = Some(d)
    /\ UNCHANGED << session, round, payloads, bcast2, direct3, verified, accepted >>

\* the dishonest party reveals the bundle d to party i
AdvReveal(i, d) ==
    /\ 0 \in Dishonest
    /\ Deliver2(i, 0, [data |-> d])

\* the dishonest party sends party i a Round 3 packet
AdvDirect(i, kind) ==
    /\ 0 \in Dishonest
    /\ i \in honest
    /\ round[i].tag = "R3"
    /\ Deliver3(i, 0, AdvPacket(kind, i, round[i].datas[0], round[i].rho))

NextAdv ==
    \/ Next
    \/ \E d \in AdvDatas : AdvCommit(d)
    \/ \E d \in AdvDatas : \E i \in Parties : AdvReveal(i, d)
    \/ \E i \in Parties, kind \in PacketKinds : AdvDirect(i, kind)

SpecAdv == InitAdv /\ [][NextAdv]_vars

(* ------------------------------------------------------------------ *)
(* Properties of a session with a dishonest party                       *)
(* ------------------------------------------------------------------ *)
\* the FullData party i holds of every party at the end of round 2
AcceptedVec(i) ==
    into_vec(Unwrap(accepted[i]), num_parties, i, Published(i))

\* C3: mask consistency. For every party i that outputs AuxData, G * x_mask
\* is xs_masks_public[i], the sum over all parties j of the xs_public[i] of
\* the FullData i accepted from j in round 2 (its own for j = i).
C3_MaskConsistent ==
    \A i \in honest : Done(i) =>
        /\ Mul(round[i].x_mask) = At(round[i].xs_masks_public, i)
        /\ At(round[i].xs_masks_public, i) =
              SumPoints([k \in 1..num_parties |-> At(AcceptedVec(i)[k].xs_public, i)])

C3_Witness ==
    /\ num_parties = 3
    /\ Done(1)
    /\ Done(2)
    /\ IsSome(committed)
    /\ Unwrap(committed).xs_public # Published(0).xs_public
    /\ At(round[1].xs_masks_public, 1) # IDENTITY

\* the bundle d differs from the bundle c in some field
Differs(d, c) == \E f \in Fields : d[f] # c[f]

\* the step hands party i a message of round 2 sent as party 0
Handed2(i) ==
    /\ round[i].tag = "R2"
    /\ payloads[i][0] = None
    /\ round'[i].tag = "Aborted" \/ payloads'[i][0] # None

\* C6: commitment binding. When the dishonest party reveals to an honest
\* receiver a FullData differing in some field from the one whose hash it
\* broadcast, Round2::verify_received returns the hash mismatch error, the
\* receiver aborts with it and the payload is not stored.
C6_CommitmentBinding ==
    [][LET revealed == AdvDatas
       IN  \A i \in honest :
              (0 \notin honest /\ Handed2(i) /\ IsSome(committed)) =>
                 \A d \in revealed :
                    (Differs(d, Unwrap(committed)) /\ AdvReveal(i, d)) =>
                       /\ Round2_verify_received(round[i], 0, [data |-> d])
                             = Err("Invalid hash")
                       /\ round'[i].tag = "Aborted"
                       /\ round'[i].error = "Invalid hash"
                       /\ payloads'[i][0] = None]_vars

C6_Witness ==
    \E i \in honest :
        /\ round[i].tag = "Aborted"
        /\ round[i].at = "R2"
        /\ round[i].from = 0
        /\ round[i].error = "Invalid hash"
        /\ Unwrap(committed) = Published(0)

\* the round a party holds, in the order of the protocol
Rank(tag) ==
    CASE tag = "R1" -> 1
      [] tag = "R2" -> 2
      [] tag = "R3" -> 3
      [] tag = "AuxData" -> 4
      [] OTHER -> 5

\* the verify_received a step of party i with the message of j ran
\* returned an error
VerifyFailed(i) ==
    \/ /\ round[i].tag = "R2"
       /\ \/ \E j \in honest \ {i} :
                /\ IsSome(bcast2[j])
                /\ ~Round2_verify_received(round[i], j, Unwrap(bcast2[j])).ok
                /\ Receive2(i, j)
          \/ \E d \in AdvDatas :
                /\ ~Round2_verify_received(round[i], 0, [data |-> d]).ok
                /\ AdvReveal(i, d)
    \/ /\ round[i].tag = "R3"
       /\ \/ \E j \in honest \ {i} :
                /\ IsSome(direct3[j])
                /\ ~Round3_verify_received(round[i], j, Unwrap(direct3[j])[i]).ok
                /\ Receive3(i, j)
          \/ \E kind \in PacketKinds :
                /\ ~Round3_verify_received(round[i], 0,
                       AdvPacket(kind, i, round[i].datas[0], round[i].rho)).ok
                /\ AdvDirect(i, kind)

C8_HappensBefore ==
    /\ [](\A i \in honest : round[i].tag = "R3" =>
            /\ DOMAIN round[i].datas = Peers(num_parties, i)
            /\ \A j \in Peers(num_parties, i) : << "R2", j >> \in verified[i])
    /\ [][\A i \in honest :
            (round'[i].tag # round[i].tag /\ round'[i].tag \in {"R2", "R3", "AuxData"}) =>
               \A j \in Peers(num_parties, i) :
                  /\ << round[i].tag, j >> \in verified[i]
                  /\ IsSome(payloads[i][j])]_vars

C8_Witness ==
    /\ num_parties = 3
    /\ round[1].tag = "R3"
    /\ round[2].tag = "R2"
    /\ verified[2] = {<< "R1", 0 >>, << "R1", 1 >>, << "R2", 1 >>}

\* the four checks of section 4.7, in order
HashMatches(i, j, d) == FullData_hash(d) = round[i].hashes[j]
ModulusLongEnough(d) == Bits(modulus(d.paillier_pk)) >= 8 * SECURITY_PARAMETER
SharesSumToIdentity(d) == SumPoints(d.xs_public) = IDENTITY
PrmVerifies(j, d) ==
    PrmProof_verify(d.prm_proof, d.paillier_pk, d.paillier_base, d.paillier_public,
                    << session_id, j >>)

FirstFailure(i, j, d) ==
    IF ~HashMatches(i, j, d) THEN "Invalid hash"
    ELSE IF ~ModulusLongEnough(d) THEN "Paillier modulus is too small"
    ELSE IF ~SharesSumToIdentity(d) THEN "Sum of X points is not identity"
    ELSE IF ~PrmVerifies(j, d) THEN "PRM verification failed"
    ELSE "none"

\* the FullData party i can be handed as the Round2Bcast of party j
Reveals(j) == IF j \in honest THEN {Published(j)} ELSE AdvDatas

\* C9: Round 2 verification is an ordered conjunction. verify_received
\* returns the payload exactly when the four checks pass, and otherwise the
\* error of the first failing check; an accepted payload is stored for its
\* sender and a rejected one aborts the receiver with that error.
C9_OrderedChecks ==
    /\ [](\A i \in honest : (round[i].tag = "R2" /\ payloads[i] = NoPayloads(num_parties)[i]) =>
            \A j \in Peers(num_parties, i) : \A d \in Reveals(j) :
               LET res == Round2_verify_received(round[i], j, [data |-> d])
               IN  /\ res.ok <=> /\ HashMatches(i, j, d)
                                 /\ ModulusLongEnough(d)
                                 /\ SharesSumToIdentity(d)
                                 /\ PrmVerifies(j, d)
                   /\ res.ok => res.val = d
                   /\ ~res.ok => res.val = FirstFailure(i, j, d))
    /\ [][LET revealed == AdvDatas
           IN  \A i \in honest :
                  (0 \notin honest /\ Handed2(i)) =>
                     \A d \in revealed :
                        AdvReveal(i, d) =>
                           IF FirstFailure(i, 0, d) = "none"
                           THEN payloads'[i][0] = Some(d) /\ round'[i] = round[i]
                           ELSE /\ round'[i].tag = "Aborted"
                                /\ round'[i].error = FirstFailure(i, 0, d)]_vars

\* the revealed bundle fails the modulus, the sum and the PRM check, and the
\* error is that of the modulus
C9_Witness ==
    \E i \in honest :
        /\ round[i].tag = "Aborted"
        /\ round[i].from = 0
        /\ round[i].error = "Paillier modulus is too small"
        /\ ~SharesSumToIdentity(Unwrap(committed))
        /\ ~PrmVerifies(0, Unwrap(committed))

\* C10: modulus lower bound. For a revealed FullData passing the hash check,
\* verify_received returns the modulus error exactly when the modulus has
\* fewer than 8 * lambda bits, and every modulus of a peer in
\* AuxData.paillier_pks has at least 8 * lambda bits.
C10_ModulusBound ==
    /\ \A i \in honest : round[i].tag = "R2" =>
          \A j \in Peers(num_parties, i) : \A d \in Reveals(j) :
             HashMatches(i, j, d) =>
                LET res == Round2_verify_received(round[i], j, [data |-> d])
                IN  (~res.ok /\ res.val = "Paillier modulus is too small")
                       <=> Bits(modulus(d.paillier_pk)) < 8 * SECURITY_PARAMETER
    /\ \A i \in honest : Done(i) =>
          \A j \in Peers(num_parties, i) :
             Bits(modulus(At(round[i].paillier_pks, j))) >= 8 * SECURITY_PARAMETER

\* a modulus of 8 * lambda - 1 bits was rejected
C10_Witness ==
    \E i \in honest :
        /\ round[i].tag = "Aborted"
        /\ round[i].from = 0
        /\ round[i].error = "Paillier modulus is too small"
        /\ Bits(modulus(Unwrap(committed).paillier_pk)) = 8 * SECURITY_PARAMETER - 1

\* a modulus of exactly 8 * lambda bits was accepted into AuxData
C10_AcceptedAtBound ==
    \E i \in honest :
        /\ Done(i)
        /\ Bits(modulus(At(round[i].paillier_pks, 0))) = 8 * SECURITY_PARAMETER

(* ------------------------------------------------------------------ *)
(* Round 3 verification                                                 *)
(* ------------------------------------------------------------------ *)
\* the Round3Direct messages party i can be handed as sent by party j
Packets(i, j) ==
    IF j \in honest
    THEN IF IsSome(direct3[j]) THEN {Unwrap(direct3[j])[i]} ELSE {}
    ELSE {AdvPacket(kind, i, round[i].datas[0], round[i].rho) : kind \in PacketKinds}

\* the scalar party i decrypts from msg
Decrypted(i, msg) ==
    Unwrap(decrypt(msg.data2.paillier_enc_x, round[i].secret_data.paillier_sk))

\* the five checks of Round 3 on msg from j at party i
ShareMatches(i, j, msg) ==
    Mul(Decrypted(i, msg)) = At(round[i].datas[j].xs_public, i)
ModVerifies(i, j, msg) ==
    ModProof_verify(msg.data2.mod_proof, round[i].datas[j].paillier_pk,
                    << session_id, round[i].rho, j >>)
FacVerifies(msg) == FacProof_verify(msg.data2.fac_proof)
SchYVerifies(i, j, msg) ==
    SchProof_verify(msg.data2.sch_proof_y, round[i].datas[j].sch_commitment_y,
                    round[i].datas[j].y_public, << session_id, round[i].rho, j >>)
SchXVerifies(i, j, msg) ==
    SchProof_verify(msg.data2.sch_proof_x,
                    At(round[i].datas[j].sch_commitments_x, i),
                    At(round[i].datas[j].xs_public, i),
                    << session_id, round[i].rho, j >>)

\* the step hands party i a message of round 3 sent as party 0
Handed3(i) ==
    /\ round[i].tag = "R3"
    /\ payloads[i][0] = None
    /\ round'[i].tag = "Aborted" \/ payloads'[i][0] # None

\* C11: Round 3 verification. Round3::verify_received returns a payload
\* exactly when G * x of the decrypted share x is the xs_public[self] of the
\* sender and the MOD, FAC, SCH-y and SCH-x proofs verify, and the payload is
\* that x; a packet with the ciphertext of another scalar is rejected with
\* the share mismatch error whatever its proofs are, and aborts the receiver
\* with that error.
C11_Round3Verification ==
    /\ [](\A i \in honest : round[i].tag = "R3" =>
            \A j \in Peers(num_parties, i) : \A msg \in Packets(i, j) :
               LET res == Round3_verify_received(round[i], j, msg)
               IN  /\ res.ok <=> /\ ShareMatches(i, j, msg)
                                 /\ ModVerifies(i, j, msg)
                                 /\ FacVerifies(msg)
                                 /\ SchYVerifies(i, j, msg)
                                 /\ SchXVerifies(i, j, msg)
                   /\ res.ok => res.val = Decrypted(i, msg)
                   /\ ~ShareMatches(i, j, msg) => res = Err("Mismatched secret x"))
    /\ [][\A i \in honest :
            (0 \notin honest /\ Handed3(i)) =>
               \A kind \in {"other_x", "other_x_unsound"} :
                  AdvDirect(i, kind) =>
                     /\ round'[i].tag = "Aborted"
                     /\ round'[i].error = "Mismatched secret x"
                     /\ payloads'[i][0] = None]_vars

\* the sender committed to and revealed the bundle it built, and a receiver
\* rejected its packet for the share alone
C11_Witness ==
    \E i \in honest :
        /\ round[i].tag = "Aborted"
        /\ round[i].at = "R3"
        /\ round[i].from = 0
        /\ round[i].error = "Mismatched secret x"
        /\ Unwrap(committed) = Published(0)

\* the packet of kind kind the dishonest party can send party i
PacketFor(i, kind) == AdvPacket(kind, i, round[i].datas[0], round[i].rho)

\* msg from the dishonest party fails the SCH-x check of party i and no other
FailsOnlySchX(i, msg) ==
    /\ ShareMatches(i, 0, msg) /\ ModVerifies(i, 0, msg) /\ FacVerifies(msg)
    /\ SchYVerifies(i, 0, msg) /\ ~SchXVerifies(i, 0, msg)

\* msg from the dishonest party fails the SCH-y check of party i and no other
FailsOnlySchY(i, msg) ==
    /\ ShareMatches(i, 0, msg) /\ ModVerifies(i, 0, msg) /\ FacVerifies(msg)
    /\ ~SchYVerifies(i, 0, msg) /\ SchXVerifies(i, 0, msg)

\* C12: distinct error kinds of round 3. The error returned for a packet
\* failing only the sch_proof_x check differs from the error returned for a
\* packet failing only the sch_proof_y check, and both differ from the
\* errors of the share, MOD and FAC checks.
C12_DistinctSchErrors ==
    \A i \in honest : (round[i].tag = "R3" /\ 0 \notin honest) =>
        LET px == PacketFor(i, "sch_x_unsound")
            py == PacketFor(i, "sch_y_unsound")
            rx == Round3_verify_received(round[i], 0, px)
            ry == Round3_verify_received(round[i], 0, py)
            others == {"Mismatched secret x", "Mod proof verification failed",
                       "Fac proof verification failed"}
        IN  (FailsOnlySchX(i, px) /\ FailsOnlySchY(i, py)) =>
               /\ ~rx.ok /\ ~ry.ok
               /\ rx.val \notin others
               /\ ry.val \notin others
               /\ rx.val # ry.val

(* ------------------------------------------------------------------ *)
(* Exchanged xs_public                                                  *)
(* ------------------------------------------------------------------ *)
\* the errors of Round3::verify_received for the share check (line 359) and
\* for the check of sch_proof_x (line 389)
ShareDecryptMismatch == "Mismatched secret x"
SchXFailed == "Sch proof verification (Y) failed"

\* d is the bundle party 0 built in Round1::new, or that bundle with
\* xs_public[0] and xs_public[1] exchanged
SwapOnly(d) ==
    \/ d = Published(0)
    \/ d = [Published(0) EXCEPT !.xs_public = Swap01(@)]

\* the exchange changes the entry of xs_public for recipient i
Affected(d, i) == At(d.xs_public, i) # At(Swap01(d.xs_public), i)

\* the bundle with the exchange is accepted in round 2 by every receiver
\* holding its hash
SwapAcceptedInRound2 ==
    \A i \in honest : (round[i].tag = "R2" /\ 0 \notin honest) =>
        \A d \in AdvDatas :
           (SwapOnly(d) /\ HashMatches(i, 0, d)) =>
              /\ SumPoints(d.xs_public) = SumPoints(Swap01(d.xs_public))
              /\ Round2_verify_received(round[i], 0, [data |-> d]) = Ok(d)

\* the step hands party i the packet Round3::to_send builds for it from the
\* bundle i holds and the secret shares the bundle is exchanged against
SwapPacketHanded(i) ==
    /\ 0 \notin honest
    /\ Handed3(i)
    /\ SwapOnly(round[i].datas[0])
    /\ AdvDirect(i, "as_code")

\* C13 as stated: the exchange is caught in round 3 by the affected
\* recipient with the error of the sch_proof_x check.
C13_SwapCaughtBySchX ==
    /\ [] SwapAcceptedInRound2
    /\ [][\A i \in honest :
            (SwapPacketHanded(i) /\ Affected(round[i].datas[0], i)) =>
               /\ round'[i].tag = "Aborted"
               /\ round'[i].error = SchXFailed]_vars

\* C13, amended: a bundle of party 0 with xs_public[0] and xs_public[1]
\* exchanged against its secret shares, passing the hash check, is accepted
\* in round 2 by every receiver (the exchange does not change the sum); in
\* round 3 the recipient whose entry changed rejects the packet of party 0
\* with the share mismatch error, and a recipient whose entry did not change
\* accepts it.
C13_SwapCaughtByShare ==
    /\ [] SwapAcceptedInRound2
    /\ [][\A i \in honest :
            SwapPacketHanded(i) =>
               IF Affected(round[i].datas[0], i)
               THEN /\ round'[i].tag = "Aborted"
                    /\ round'[i].error = ShareDecryptMismatch
                    /\ payloads'[i][0] = None
               ELSE /\ round'[i] = round[i]
                    /\ payloads'[i][0] =
                          Some(DLog(At(round[i].datas[0].xs_public, i)))]_vars

C13_Witness ==
    /\ num_parties = 3
    /\ IsSome(committed)
    /\ Unwrap(committed) = [Published(0) EXCEPT !.xs_public = Swap01(@)]
    /\ Unwrap(committed) # Published(0)
    /\ round[1].tag = "Aborted"
    /\ round[1].at = "R3"
    /\ round[1].from = 0
    /\ round[1].error = ShareDecryptMismatch
    /\ Done(2)

(* ------------------------------------------------------------------ *)
(* The functions of the tools, each called on its own                   *)
(* ------------------------------------------------------------------ *)
\* the sizes zero_sum_scalars is called with
ZeroSumSizes == 1..4
\* the numbers of parties Round1::new is called with
NewSizes == 1..3
\* the bytes rng.fill_bytes yields, repeated
ByteStreams == [1..2 -> 0..MaxByte]
\* the operands of ^=
ByteVecs == UNION {[1..l -> (0..MaxByte) \cup {255}] : l \in 0..2}

ToolCalls ==
    UNION {{[op |-> "zero_sum_scalars", n |-> n, free |-> f, out |-> None] :
               f \in [1..(n - 1) -> Scalars]} : n \in ZeroSumSizes}
    \cup
    UNION {{[op |-> "Round1::new", n |-> n, idx |-> idx, free |-> f, out |-> None] :
               idx \in 0..(n - 1), f \in [1..(n - 1) -> Scalars]} : n \in NewSizes}
    \cup
    {[op |-> "BitVec::random", min_bits |-> b, stream |-> st, out |-> None] :
        b \in 0..UsizeMax, st \in ByteStreams}
    \cup
    {[op |-> "bitxor_assign", lhs |-> l, rhs |-> r, out |-> None] :
        l \in ByteVecs, r \in ByteVecs}

\* the variables of the session
protocol ==
    << num_parties, session_id, rng, honest, round, payloads,
       bcast1, bcast2, direct3, verified, accepted, committed >>

\* no session; one call with its arguments, not yet made
InitTools ==
    /\ num_parties = 0
    /\ session_id \in SessionIds
    /\ rng = << >>
    /\ honest = {}
    /\ round = << >>
    /\ payloads = << >>
    /\ bcast1 = << >>
    /\ bcast2 = << >>
    /\ direct3 = << >>
    /\ verified = << >>
    /\ accepted = << >>
    /\ committed = None
    /\ call \in ToolCalls

Call_zero_sum_scalars ==
    /\ call.op = "zero_sum_scalars"
    /\ call.out = None
    /\ call' = [call EXCEPT !.out = Some(zero_sum_scalars(call.free))]
    /\ UNCHANGED protocol

Call_Round1_new ==
    /\ call.op = "Round1::new"
    /\ call.out = None
    /\ call' = [call EXCEPT !.out =
          Some(Round1_new(
                 Rnd([xs_free |-> call.free,
                      rho_bits |-> [k \in 1..BytesFor(SECURITY_PARAMETER) |-> 0]],
                     call.idx, call.n),
                 session_id, call.idx, call.n))]
    /\ UNCHANGED protocol

Call_BitVec_random ==
    /\ call.op = "BitVec::random"
    /\ call.out = None
    /\ \E res \in BitVec_random(call.stream, call.min_bits) :
          call' = [call EXCEPT !.out = Some(res)]
    /\ UNCHANGED protocol

Call_bitxor_assign ==
    /\ call.op = "bitxor_assign"
    /\ call.out = None
    /\ call' = [call EXCEPT !.out = Some(BitVec_bitxor_assign(call.lhs, call.rhs))]
    /\ UNCHANGED protocol

NextTools ==
    \/ Call_zero_sum_scalars
    \/ Call_Round1_new
    \/ Call_BitVec_random
    \/ Call_bitxor_assign

SpecTools == InitTools /\ [][NextTools]_vars

\* the call of op has returned
Called(op) == call.op = op /\ IsSome(call.out)

\* C14: zero-sum sampling. For every N >= 1, N = 1 included,
\* zero_sum_scalars(N) returns exactly N scalars summing to the zero scalar
\* (the single scalar of N = 1 is 0) for every outcome of the draws; the
\* xs_secret of Round1::new has length N and sums to 0, and its xs_public
\* has length N, xs_public[k] = G * xs_secret[k], and sums to the identity.
C14_ZeroSum ==
    /\ Called("zero_sum_scalars") =>
          LET xs == Unwrap(call.out)
          IN  /\ Len(xs) = call.n
              /\ \A k \in 1..Len(xs) : xs[k] \in Scalars
              /\ SumScalars(xs) = 0
              /\ \A k \in 1..(call.n - 1) : xs[k] = call.free[k]
              /\ call.n = 1 => xs = << 0 >>
    /\ Called("Round1::new") =>
          LET r1 == Unwrap(call.out)
              xs_secret == r1.secret_data.xs_secret
              xs_public == r1.data.xs_public
          IN  /\ Len(xs_secret) = call.n
              /\ SumScalars(xs_secret) = 0
              /\ Len(xs_public) = call.n
              /\ \A k \in 1..call.n : xs_public[k] = Mul(xs_secret[k])
              /\ SumPoints(xs_public) = IDENTITY

C14_Witness ==
    /\ Called("Round1::new")
    /\ call.n = 3
    /\ Unwrap(call.out).secret_data.xs_secret[3] # 0
    /\ Unwrap(call.out).data.xs_public[1] # Unwrap(call.out).data.xs_public[2]

\* zero_sum_scalars(1) returned the zero scalar alone
C14_SingleScalar ==
    /\ Called("zero_sum_scalars")
    /\ call.n = 1
    /\ Unwrap(call.out) = << 0 >>

(* ------------------------------------------------------------------ *)
(* Order of delivery within a round                                     *)
(* ------------------------------------------------------------------ *)
\* the orders in which the elements of S can come
Orders(S) ==
    {f \in [1..Cardinality(S) -> S] :
        \A a, b \in 1..Cardinality(S) : a # b => f[a] # f[b]}

\* the FullData of party j in the messages of rounds 1 and 2 to party i
DataOf(j) == IF j \in honest THEN Published(j) ELSE Unwrap(committed)

\* the share of party i in the packet of round 3 it accepts from j
ShareOf(i, j) ==
    IF j = i
    THEN At(Round1_new(rng[i], session_id, i, num_parties).secret_data.xs_secret, i)
    ELSE DLog(At(DataOf(j).xs_public, i))

RECURSIVE FoldXor(_, _, _)
\* rho[i] ^= x over the rho_bits of the parties order[k], k, k + 1, ...
FoldXor(rho, order, k) ==
    IF k > Len(order) THEN rho
    ELSE FoldXor(XorInto(rho, DataOf(order[k]).rho_bits), order, k + 1)

\* the states of party i by round, from the messages of its peers alone
StateR1(i) ==
    LET r1 == Round1_new(rng[i], session_id, i, num_parties)
    IN  [tag |-> "R1", data |-> r1.data, secret_data |-> r1.secret_data]
StateR2(i) ==
    Round1_finalize(StateR1(i),
        [j \in Peers(num_parties, i) |-> FullData_hash(DataOf(j))])
StateR3(i) ==
    Round2_finalize(StateR2(i), [j \in Peers(num_parties, i) |-> DataOf(j)])
StateAux(i) ==
    Round3_finalize(StateR3(i), [j \in Peers(num_parties, i) |-> ShareOf(i, j)])

\* the payload of the message of j party i holds in its round, if any
PayloadOf(i, j) ==
    CASE round[i].tag = "R1" -> FullData_hash(DataOf(j))
      [] round[i].tag = "R2" -> DataOf(j)
      [] round[i].tag = "R3" -> ShareOf(i, j)

\* C15: order independence within a round. Whatever the order in which the
\* messages of a round were handed to verify_received, an accepted message
\* leaves the round state as it was and stores the payload of that message,
\* and finalize yields the state determined by the messages alone: the
\* hashes of Round2, the rho (the XOR of the rho_bits taken in any order) and
\* datas of Round3, the x_mask (the sum of the shares in any order) and the
\* public vectors of AuxData.
C15_OrderIndependent ==
    /\ [](\A i \in honest :
            /\ round[i].tag \in {"R1", "R2", "R3"} =>
                  \A j \in Peers(num_parties, i) :
                     IsSome(payloads[i][j]) => payloads[i][j] = Some(PayloadOf(i, j))
            /\ round[i].tag = "R1" => round[i] = StateR1(i)
            /\ round[i].tag = "R2" => round[i] = StateR2(i)
            /\ round[i].tag = "R3" =>
                  /\ round[i] = StateR3(i)
                  /\ \A order \in Orders(Peers(num_parties, i)) :
                        round[i].rho = FoldXor(round[i].data.rho_bits, order, 1)
            /\ round[i].tag = "AuxData" =>
                  /\ round[i] = StateAux(i)
                  /\ \A order \in Orders(Parties) :
                        /\ round[i].x_mask =
                              SumScalars([k \in 1..num_parties |-> ShareOf(i, order[k])])
                        /\ \A idx \in Parties :
                              At(round[i].xs_masks_public, idx) =
                                 SumPoints([k \in 1..num_parties |->
                                    At(DataOf(order[k]).xs_public, idx)]))
    /\ [][\A i \in honest :
            round'[i].tag = round[i].tag => round'[i] = round[i]]_vars

\* party 1 finished although the messages of every round could reach it in
\* either order, while party 2 holds the round 3 packet of party 1 and not
\* yet that of party 0
C15_Witness ==
    /\ num_parties = 3
    /\ Done(1)
    /\ round[2].tag = "R3"
    /\ IsSome(payloads[2][1])
    /\ payloads[2][0] = None
    /\ DataOf(0).rho_bits # DataOf(1).rho_bits

(* ------------------------------------------------------------------ *)
(* Fiat-Shamir auxiliaries                                              *)
(* ------------------------------------------------------------------ *)
\* the packets whose proof of one kind was produced under another session
\* id, another rho or another sender index
OtherAuxKinds(proof) ==
    CASE proof = "mod" -> {"mod_sid", "mod_rho", "mod_aux"}
      [] proof = "fac" -> {"fac_sid", "fac_rho", "fac_aux"}
      [] proof = "sch_y" -> {"sch_y_sid", "sch_y_rho", "sch_y_aux"}
      [] proof = "sch_x" -> {"sch_x_sid", "sch_x_rho", "sch_x_aux"}

\* party i rejects every packet of the dishonest party whose proof of the
\* given kind was produced under another auxiliary
RejectsOtherAux(i, proof) ==
    \A kind \in OtherAuxKinds(proof) :
        ~Round3_verify_received(round[i], 0, PacketFor(i, kind)).ok

\* C16: every proof is verified under its declared auxiliary. The PRM proof
\* of an accepted FullData of j verifies under (session_id, j); the packet of
\* an honest sender j, whose proofs carry (session_id, rho, j), is accepted;
\* a packet holding a MOD, FAC, SCH-y or SCH-x proof produced under another
\* session id, another rho or another sender index is rejected; and the
\* auxiliary of round 1 is never that of round 3.
C16_ProofsBoundToAux ==
    \A i \in honest : round[i].tag = "R3" =>
        /\ \A j \in Peers(num_parties, i) :
              /\ PrmVerifies(j, round[i].datas[j])
              /\ << session_id, j >> # << session_id, round[i].rho, j >>
              /\ \A msg \in Packets(i, j) :
                    j \in honest =>
                       /\ msg.data2.mod_proof.aux = << session_id, round[i].rho, j >>
                       /\ Round3_verify_received(round[i], j, msg).ok
        /\ 0 \notin honest =>
              \A proof \in {"mod", "fac", "sch_y", "sch_x"} : RejectsOtherAux(i, proof)

(* ------------------------------------------------------------------ *)
(* BitVec                                                               *)
(* ------------------------------------------------------------------ *)
\* the least number of bytes holding min_bits bits
CeilDiv8(min_bits) == (min_bits + 7) \div 8

\* C17: BitVec length. BitVec::random(rng, min_bits) returns, without a
\* panic or a wrapped length, exactly ceil(min_bits / 8) bytes for every
\* min_bits of usize, 0 included; ^= of two BitVec of equal lengths XORs
\* bytewise, and ^= of unequal lengths fails its assertion with the left
\* operand unchanged.
C17_BitVecLength ==
    /\ Called("BitVec::random") =>
          /\ ~Unwrap(call.out).panic
          /\ Len(Unwrap(call.out).val) = CeilDiv8(call.min_bits)
    /\ Called("bitxor_assign") =>
          IF Len(call.lhs) = Len(call.rhs)
          THEN /\ ~Unwrap(call.out).panic
               /\ Len(Unwrap(call.out).lhs) = Len(call.lhs)
               /\ \A k \in 1..Len(call.lhs) :
                     Unwrap(call.out).lhs[k] = Xor(call.lhs[k], call.rhs[k])
          ELSE /\ Unwrap(call.out).panic
               /\ Unwrap(call.out).lhs = call.lhs

(* ------------------------------------------------------------------ *)
(* A dishonest party 0 whose vectors have other lengths                 *)
(* ------------------------------------------------------------------ *)
\* the ways the dishonest party changes the lengths of the vectors of the
\* bundle it builds: none; xs_public one shorter, and one longer with the
\* first N entries not summing to the identity, both summing to the
\* identity; sch_commitments_x one shorter; rho_bits one longer and empty
LengthKinds ==
    {"none", "xs_short", "xs_long", "sch_short", "rho_long", "rho_empty"}

\* the points xs without the last, the new last taking its part of the sum
Shorter(xs) ==
    [k \in 1..(Len(xs) - 1) |->
        IF k = Len(xs) - 1 THEN PointAdd(xs[k], xs[Len(xs)]) ELSE xs[k]]

Resized(d, kind) ==
    [d EXCEPT
       !.xs_public =
          IF kind = "xs_short" THEN Shorter(@)
          ELSE IF kind = "xs_long"
          THEN [@ EXCEPT ![1] = PointAdd(@, 1)] \o << Order - 1 >>
          ELSE @,
       !.sch_commitments_x =
          IF kind = "sch_short" THEN SubSeq(@, 1, Len(@) - 1) ELSE @,
       !.rho_bits =
          IF kind = "rho_long" THEN @ \o << 1 >>
          ELSE IF kind = "rho_empty" THEN << >>
          ELSE @]

LenTable ==
    [n \in PartyCounts, sid \in SessionIds |->
        {Resized(AdvBase(KeyOf(0), sid, n), kind) : kind \in LengthKinds}]

LenDatas == LenTable[num_parties, session_id]

NextLen ==
    \/ Next
    \/ \E d \in LenDatas : AdvCommit(d)
    \/ \E d \in LenDatas : \E i \in Parties : AdvReveal(i, d)
    \/ \E i \in Parties, kind \in {"valid", "other_x"} : AdvDirect(i, kind)

SpecLen == InitAdv /\ [][NextLen]_vars

\* the lengths of the vectors of d are those of a bundle of Round1::new
WellFormed(i, d) ==
    /\ Len(d.xs_public) = num_parties
    /\ Len(d.sch_commitments_x) = num_parties
    /\ Len(d.rho_bits) = Len(round[i].data.rho_bits)

\* C18: structural validation of accepted bundles. Every FullData that
\* Round2::verify_received accepts has xs_public and sch_commitments_x of
\* length N and rho_bits as long as the rho_bits of the receiver, and no
\* party panics in Round2::finalize, Round3::verify_received or
\* Round3::finalize.
C18_AcceptedWellFormed ==
    \A i \in honest :
        /\ round[i].tag = "R2" =>
              \A j \in Peers(num_parties, i) :
                 IsSome(payloads[i][j]) => WellFormed(i, Unwrap(payloads[i][j]))
        /\ round[i].tag = "R3" =>
              \A j \in Peers(num_parties, i) : WellFormed(i, round[i].datas[j])
        /\ round[i].tag # "Panicked"

\* a party panicked in Round2::finalize; in Round3::verify_received; in
\* Round3::finalize after all packets were accepted
PanickedInFinalize2 ==
    \E i \in honest : round[i] = [tag |-> "Panicked", at |-> "R2"]
PanickedInRound3 ==
    \E i \in honest : round[i] = [tag |-> "Panicked", at |-> "R3"]
PanickedOnShortCommitments ==
    /\ PanickedInRound3
    /\ Len(Unwrap(committed).sch_commitments_x) < num_parties
PanickedInFinalize3 ==
    /\ num_parties = 3
    /\ round[1] = [tag |-> "Panicked", at |-> "R3"]
    /\ << "R3", 0 >> \in verified[1]
    /\ << "R3", 2 >> \in verified[1]

\* C19: key preservation against a dishonest peer. Whatever the peers sent,
\* the xs_masks_public of the AuxData of an honest party sum to the
\* identity.
C19_KeyPreservedAgainstPeer ==
    \A i \in honest : Done(i) => SumPoints(round[i].xs_masks_public) = IDENTITY

(* ------------------------------------------------------------------ *)
(* Equivocation                                                         *)
(* ------------------------------------------------------------------ *)
\* the bundles party i accepted from party j in Round 2: the payload it
\* holds, or the entry of the datas its Round2::finalize was given
AcceptedFrom(i, j) ==
    IF round[i].tag = "R2" /\ IsSome(payloads[i][j])
    THEN {Unwrap(payloads[i][j])}
    ELSE IF IsSome(accepted[i]) THEN {Unwrap(accepted[i])[j]}
    ELSE {}

\* C20: no equivocation after the consensus on the round 1 hashes. Two
\* honest parties that accepted a Round 2 bundle from the same party j
\* accepted the identical bundle; two honest parties in Round 3 hold the
\* same rho; the public vectors of the AuxData of two honest parties are
\* identical.
C20_NoEquivocation ==
    \A a, b \in honest :
        /\ \A j \in Peers(num_parties, a) \cap Peers(num_parties, b) :
              \A x \in AcceptedFrom(a, j), y \in AcceptedFrom(b, j) : x = y
        /\ round[a].tag = "R3" /\ round[b].tag = "R3" => round[a].rho = round[b].rho
        /\ Done(a) /\ Done(b) => PublicVectors(round[a]) = PublicVectors(round[b])

\* two honest parties finished after accepting from the dishonest party a
\* bundle that is not the one Round1::new gave it
C20_Witness ==
    /\ num_parties = 3
    /\ Done(1) /\ Done(2)
    /\ AcceptedFrom(1, 0) = {Unwrap(committed)}
    /\ AcceptedFrom(2, 0) = {Unwrap(committed)}
    /\ Unwrap(committed) # AdvBase(KeyOf(0), session_id, num_parties)

====
